---------------------------- MODULE Spec2Model ----------------------------
(***************************************************************************)
(* Arturito: the tag-driven dispatch loop of src/agent.py over the task    *)
(* service of src/services/todoist_service.py.                             *)
(*                                                                         *)
(* A text (comment, handler result, error description) is a sequence of    *)
(* string chunks: "" is <<>>, an f-string is the concatenation of its      *)
(* literal chunks and its interpolated values.  A tag list is a sequence   *)
(* of tags, as the task service returns it.                                *)
(***************************************************************************)
EXTENDS Integers, Sequences, FiniteSets, TLC

VARIABLES
    tool_registry,        \* Agent.tool_registry: insertion-ordered <<[tag, tool]>>
    store,                \* the task service: id -> [labels, comments]
    pc,                   \* position of the run loop / the pass
    passes,               \* passes started so far
    tasks_for_agent,      \* the fetched snapshot: <<[id, labels]>>
    idx,                  \* position of the for loop in tasks_for_agent
    action_tag,           \* locals of process_tagged_tasks / arguments of
    execution_successful, \*   update_task_after_processing
    result_comment,
    calls,                \* the handler and task-service calls of the current pass
    prev_pass,            \* what the pass before it did to each item
    before,               \* the task service's state when the current pass started
    faults,               \* handler exceptions and failed API calls so far
    tools_dir,            \* the tool classes in the order os.listdir gives their files
    load_idx,             \* position of the for loop of _load_tools in tools_dir
    config,               \* services_for_tools['config']
    details,              \* id -> [content, description] of the item
    gen,                  \* a call of GeminiService.generate_content: its locals,
                          \*   the API's answers, the delays slept, what it returns
    fetched,              \* the direct calls of get_public_google_doc_content:
                          \*   <<[doc_url, http, result]>>
    main_loop             \* main's while loop: the pass count at the last exception
                          \*   that reached it (-1: none), whether the interrupt
                          \*   signal has come

vars == <<tool_registry, store, pc, passes, tasks_for_agent, idx, action_tag,
          execution_successful, result_comment, calls, prev_pass, before, faults,
          tools_dir, load_idx, config, details, gen, fetched, main_loop>>

\* What a pass of the dispatch loop never writes.
outside_pass == <<tool_registry, tools_dir, load_idx, config, details, gen, fetched,
                  main_loop>>

-----------------------------------------------------------------------------
(* Bounds *)

\* tags on the items of the task service, all items together, when a run starts
MaxTotalLabels == 4
\* passes the scheduler starts in a run
MaxPasses == 2
\* failures in a run: handler exceptions and failed task-service API calls
MaxFaults == 1
\* tool files in the tools directory when the registry is loaded from it
MaxToolFiles == 3

-----------------------------------------------------------------------------
(* Constants of the program *)

AGENT_TAG == "@arturito"
DONE_TAG == "@arturito_hecho"
None == "<None>"

\* The tool classes of src/tools and their TRIGGER_TAG.
\* (raises: whether importing the class's module or its own constructor raises)
SearchTool == [name |-> "SearchTool", TRIGGER_TAG |-> "buscar", raises |-> "no"]
DocSummaryTool == [name |-> "DocSummaryTool", TRIGGER_TAG |-> "resumir_doc", raises |-> "no"]
ToolClasses == {SearchTool, DocSummaryTool}

\* The tags an item may carry: the reserved ones and the trigger tags (the done
\* marker is also the tag that no handler knows).
Tags == {AGENT_TAG, DONE_TAG, "buscar", "resumir_doc"}

\* The items of the task service, in the order a fetch returns them.
TaskOrder == <<"t1", "t2">>
TaskIds == {TaskOrder[i] : i \in 1..Len(TaskOrder)}

\* What a handler's execute can return, and the descriptions of what it raises.
Whitespace == {" ", "\n", "\t"}
ResultTexts == {<<>>, <<" ">>, <<"resultado">>}
ErrorTexts == {<<"timeout">>}

-----------------------------------------------------------------------------
(* Sequences *)

Range(s) == {s[i] : i \in 1..Len(s)}

NoDuplicates(s) == \A i, j \in 1..Len(s) : s[i] = s[j] => i = j

SeqsUpTo(S, n) == UNION {[1..k -> S] : k \in 0..n}

\* The tag lists the task service holds for an item: no tag twice.
LabelLists == {s \in SeqsUpTo(Tags, Cardinality(Tags)) : NoDuplicates(s)}

RECURSIVE Filter(_, _)
\* [x for x in s if x \notin drop]
Filter(s, drop) ==
    IF s = <<>> THEN <<>>
    ELSE IF Head(s) \in drop THEN Filter(Tail(s), drop)
         ELSE <<Head(s)>> \o Filter(Tail(s), drop)

RECURSIVE Insert(_, _)
Insert(x, s) ==
    IF s = <<>> THEN <<x>>
    ELSE IF x <= Head(s) THEN <<x>> \o s
         ELSE <<Head(s)>> \o Insert(x, Tail(s))

\* A stand-in order on tags for sorted(): TLC does not order strings.
TagRank(t) ==
    CASE t = AGENT_TAG -> 1
      [] t = DONE_TAG -> 2
      [] t = "buscar" -> 3
      [] t = "resumir_doc" -> 4
      [] OTHER -> 0

RECURSIVE Sorted(_)
\* sorted(labels), as the list of the ranks of its tags
Sorted(s) == IF s = <<>> THEN <<>> ELSE Insert(TagRank(Head(s)), Sorted(Tail(s)))

-----------------------------------------------------------------------------
(* Texts *)

\* if text: / not text
Truthy(text) == Len(text) > 0

RECURSIVE LStrip(_)
LStrip(text) ==
    IF text = <<>> THEN <<>>
    ELSE IF Head(text) \in Whitespace THEN LStrip(Tail(text)) ELSE text

RECURSIVE RStrip(_)
RStrip(text) ==
    IF text = <<>> THEN <<>>
    ELSE IF text[Len(text)] \in Whitespace
         THEN RStrip(SubSeq(text, 1, Len(text) - 1)) ELSE text

\* str.strip()
Strip(text) == RStrip(LStrip(text))

Diagnostic_without_tag(tag, e) ==
    <<"Error: Fallo al ejecutar la acci<U+221A><U+2265>n.\nDetalles: ">> \o e

\* Agent: f"Error: Fallo al ejecutar la acci..n '{action_tag}'.\nDetalles: {e}";
\* the literal of agent.py holds the two characters U+221A U+2265 where the
\* word has its accented letter.
Diagnostic(tag, e) ==
    <<"Error: Fallo al ejecutar la acci<U+221A><U+2265>n '", tag, "'.\nDetalles: ">> \o e

\* An Optional[str]: None, or a text.
NoText == [is_none |-> TRUE, text |-> <<>>]
Some(text) == [is_none |-> FALSE, text |-> text]

\* if not x, for an Optional[str]
Falsy(opt) == opt.is_none \/ ~Truthy(opt.text)

-----------------------------------------------------------------------------
(* GeminiService.generate_content *)

MAX_RETRIES == 3
INITIAL_BACKOFF_SECONDS == 2
BACKOFF_FACTOR == 2

DEFAULT_MODEL == "models/gemini-1.5-flash"

\* model_name as a caller passes it: not given, a model, a tuned model, and a
\* name with neither prefix.
ModelNames == {None, "models/gemini-2.0-flash-lite", "tunedModels/mio", "gemini-pro"}

\* startswith("models/") or startswith("tunedModels/")
ValidModelName(name) ==
    name \in {DEFAULT_MODEL, "models/gemini-2.0-flash-lite", "tunedModels/mio"}

\* What one model.generate_content call does: a response with text parts, a
\* response without candidates or parts, or one of the exceptions.
Transient == {"ResourceExhausted", "InternalServerError", "DeadlineExceeded"}
ErrorAnswers == Transient \cup {"NotFound", "GoogleAPIError", "Exception"}
AnswerTexts == {<<"resumen">>, <<" ", "resumen", "\n">>}
ApiAnswers ==
    [kind : {"text"}, text : AnswerTexts]
        \cup [kind : ErrorAnswers \cup {"blocked"}, text : {<<>>}]

\* No call of generate_content is going on.
NoCall ==
    [pc |-> "idle", model_to_use |-> None, retries |-> 0, backoff_time |-> 0,
     attempts |-> <<>>, slept |-> <<>>, result |-> NoText]

Retried_with_blocked(kind) == kind \in Transient \cup {"blocked"}

\* the except clause that counts the attempt and goes round the loop again
Retried(kind) == kind \in Transient

NextBackoff_constant(backoff_time) == backoff_time

\* backoff_time *= self.BACKOFF_FACTOR
NextBackoff(backoff_time) == backoff_time * BACKOFF_FACTOR

\* generate_content up to the while loop: an invalid model name returns None.
GenCall ==
    /\ gen.pc = "idle"
    /\ \E model_name \in ModelNames :
         LET model_to_use == IF model_name # None THEN model_name ELSE DEFAULT_MODEL IN
         gen' = IF ~ValidModelName(model_to_use)
                THEN [gen EXCEPT !.pc = "returned", !.model_to_use = model_to_use,
                                 !.result = NoText]
                ELSE [gen EXCEPT !.pc = "loop", !.model_to_use = model_to_use,
                                 !.retries = 0,
                                 !.backoff_time = INITIAL_BACKOFF_SECONDS]
    /\ UNCHANGED <<tool_registry, store, pc, passes, tasks_for_agent, idx, action_tag,
                   execution_successful, result_comment, calls, prev_pass, before,
                   faults, tools_dir, load_idx, config, details, fetched, main_loop>>

\* One iteration of the while loop: the API call, and what the code does with
\* its answer (return, or count the attempt, sleep and go round again).
GenAttempt ==
    /\ gen.pc = "loop"
    /\ IF gen.retries < MAX_RETRIES
       THEN \E answer \in ApiAnswers :
              LET tried == [gen EXCEPT !.attempts = Append(@, answer.kind)] IN
              gen' =
                IF answer.kind = "text"
                THEN [tried EXCEPT !.pc = "returned", !.result = Some(Strip(answer.text))]
                ELSE IF Retried(answer.kind)
                THEN IF gen.retries + 1 < MAX_RETRIES
                     THEN [tried EXCEPT !.retries = @ + 1,
                                        !.slept = Append(@, gen.backoff_time),
                                        !.backoff_time = NextBackoff(@)]
                     ELSE [tried EXCEPT !.retries = @ + 1, !.pc = "returned",
                                        !.result = NoText]
                ELSE [tried EXCEPT !.pc = "returned", !.result = NoText]
       ELSE gen' = [gen EXCEPT !.pc = "returned", !.result = NoText]
    /\ UNCHANGED <<tool_registry, store, pc, passes, tasks_for_agent, idx, action_tag,
                   execution_successful, result_comment, calls, prev_pass, before,
                   faults, tools_dir, load_idx, config, details, fetched, main_loop>>

-----------------------------------------------------------------------------
(* The handler registry *)

RegistryKeys(reg) == {reg[i].tag : i \in 1..Len(reg)}

RegistryPut_first_wins(reg, tag, tool) ==
    IF tag \in RegistryKeys(reg) THEN reg
    ELSE Append(reg, [tag |-> tag, tool |-> tool])

\* self.tool_registry[trigger_tag] = tool_instance: a new key goes last, an
\* existing key keeps its place and takes the new value.
RegistryPut(reg, tag, tool) ==
    IF tag \in RegistryKeys(reg)
    THEN [i \in 1..Len(reg) |->
            IF reg[i].tag = tag THEN [tag |-> tag, tool |-> tool] ELSE reg[i]]
    ELSE Append(reg, [tag |-> tag, tool |-> tool])

\* importlib.import_module(module_name) raises
ImportRaises(cls) == cls.raises = "import"

InstantiateRaises_blank_accepted(cls) == cls.raises = "init"

\* obj(self.services_for_tools) raises: BaseTool.__init__ when the class
\* declares no TRIGGER_TAG, or the class's own constructor.
InstantiateRaises(cls) == cls.TRIGGER_TAG = "" \/ cls.raises = "init"

RECURSIVE LoadTools(_, _)
\* Agent._load_tools over the tool classes in the order os.listdir gives them.
LoadTools(listing, reg) ==
    IF listing = <<>> THEN reg
    ELSE LoadTools(Tail(listing),
                   IF ImportRaises(Head(listing)) \/ InstantiateRaises(Head(listing))
                   THEN reg
                   ELSE RegistryPut(reg, Head(listing).TRIGGER_TAG, Head(listing).name))

\* os.listdir returns the tool files in arbitrary order.
Listings == {s \in [1..Cardinality(ToolClasses) -> ToolClasses] : NoDuplicates(s)}


-----------------------------------------------------------------------------
(* The task service *)

\* TodoistAPI.get_tasks(filter=tag): the items carrying the tag, in the
\* service's order, each with the tag list it has now.
ApiGetTasks(tag) ==
    LET Pick[i \in 0..Len(TaskOrder)] ==
            IF i = 0 THEN <<>>
            ELSE IF tag \in Range(store[TaskOrder[i]].labels)
                 THEN Append(Pick[i - 1],
                             [id |-> TaskOrder[i], labels |-> store[TaskOrder[i]].labels])
                 ELSE Pick[i - 1]
    IN Pick[Len(TaskOrder)]

get_tasks_by_filter_retries(filter_string, api) == ApiGetTasks(filter_string)

get_tasks_by_filter_unfiltered(filter_string, api) ==
    IF api = "raise" THEN <<>>
    ELSE [i \in 1..Len(TaskOrder) |->
            [id |-> TaskOrder[i], labels |-> store[TaskOrder[i]].labels]]

\* TodoistService.get_tasks_by_filter: the API's list, [] when the API raises.
get_tasks_by_filter(filter_string, api) ==
    IF api = "raise" THEN <<>> ELSE ApiGetTasks(filter_string)

AddCommentCallsApi_no_strip(task_id, content) == Truthy(content) /\ task_id # ""

\* TodoistService.add_comment: TRUE iff the API is called at all.
AddCommentCallsApi(task_id, content) ==
    ~(~Truthy(content) \/ ~Truthy(Strip(content))) /\ task_id # ""

\* TodoistService.add_comment: the task service after the call.
add_comment(st, task_id, content, api) ==
    IF AddCommentCallsApi(task_id, content) /\ api = "ok"
    THEN [st EXCEPT ![task_id].comments = Append(@, content)]
    ELSE st

\* TodoistService.update_task_labels: what it returns.
UpdateLabelsResult(api) == api = "true"

update_task_labels_not_written(st, task_id, labels, api) == st

\* TodoistService.update_task_labels: the task service after the call
\* (the API replaces the whole tag list when it succeeds).
update_task_labels(st, task_id, labels, api) ==
    IF api = "true" THEN [st EXCEPT ![task_id].labels = labels] ELSE st

\* The number of tags the task service holds.
TotalLabels(st) ==
    LET Sum[i \in 0..Len(TaskOrder)] ==
            IF i = 0 THEN 0 ELSE Sum[i - 1] + Len(st[TaskOrder[i]].labels)
    IN Sum[Len(TaskOrder)]

\* What an API call can do: it fails only while the run's failures last.
ApiOutcomes(good, bad) == IF faults < MaxFaults THEN good \cup bad ELSE good

Failed(api) == IF api \in {"raise", "false"} THEN 1 ELSE 0

-----------------------------------------------------------------------------
(* The dispatch loop *)

\* self.tool_registry[tag]
RegistryGet(reg, tag) == reg[CHOOSE i \in 1..Len(reg) : reg[i].tag = tag].tool

Call(op, id, tag, tool, text, labels, api, ok) ==
    [op |-> op, id |-> id, tag |-> tag, tool |-> tool, text |-> text,
     labels |-> labels, api |-> api, ok |-> ok]

\* What a pass did to an item, read off its calls.
PassSummary(log) ==
    [id \in TaskIds |->
        [handler |->
            IF \E k \in 1..Len(log) : log[k].op = "execute" /\ log[k].id = id /\ log[k].ok
            THEN "returned"
            ELSE IF \E k \in 1..Len(log) : log[k].op = "execute" /\ log[k].id = id
                 THEN "raised" ELSE "none",
         tag |->
            IF \E k \in 1..Len(log) : log[k].op = "execute" /\ log[k].id = id
            THEN log[CHOOSE k \in 1..Len(log) :
                        log[k].op = "execute" /\ log[k].id = id].tag
            ELSE None,
         written |->
            \E k \in 1..Len(log) :
                log[k].op = "update_task_labels" /\ log[k].id = id /\ log[k].ok]]

RECURSIVE find_matching_tool_registry_order(_, _)
find_matching_tool_registry_order(labels, reg) ==
    IF reg = <<>> THEN None
    ELSE IF Head(reg).tag # AGENT_TAG /\ Head(reg).tag \in Range(labels)
         THEN Head(reg).tag
         ELSE find_matching_tool_registry_order(labels, Tail(reg))

RECURSIVE find_matching_tool(_, _)
\* for label in labels: the first one that is not the agent tag and is a key
\* of the registry; None when the loop runs out.
find_matching_tool(labels, reg) ==
    IF labels = <<>> THEN None
    ELSE IF Head(labels) # AGENT_TAG /\ Head(labels) \in RegistryKeys(reg)
         THEN Head(labels)
         ELSE find_matching_tool(Tail(labels), reg)

new_labels_reversed(original_labels, tag, success) ==
    LET found == Filter(original_labels, {AGENT_TAG, tag})
        kept == [i \in 1..Len(found) |-> found[Len(found) + 1 - i]]
    IN IF success THEN Append(kept, DONE_TAG) ELSE kept

new_labels_keeps_action_tag(original_labels, tag, success) ==
    LET kept == Filter(original_labels, {AGENT_TAG})
    IN IF success THEN Append(kept, DONE_TAG) ELSE kept

new_labels_keeps_agent_tag(original_labels, tag, success) ==
    LET kept == Filter(original_labels, {tag})
    IN IF success THEN Append(kept, DONE_TAG) ELSE kept

\* the list comprehension and the append of update_task_after_processing
new_labels(original_labels, tag, success) ==
    LET kept == Filter(original_labels, {AGENT_TAG, tag})
    IN IF success THEN Append(kept, DONE_TAG) ELSE kept

LabelsChanged_always(new, original) == TRUE

LabelsChanged_done_marker_only(new, original) ==
    DONE_TAG \in Range(new) /\ DONE_TAG \notin Range(original)

\* if sorted(new_labels) != sorted(original_labels)
LabelsChanged(new, original) == Sorted(new) # Sorted(original)

CurrentTask_last_first == tasks_for_agent[Len(tasks_for_agent) + 1 - idx]

\* for task in tasks_for_agent
CurrentTask == tasks_for_agent[idx]

\* The for loop moves to the next item, or the pass returns.
Advance ==
    /\ idx' = idx + 1
    /\ pc' = IF idx + 1 > Len(tasks_for_agent) THEN "idle" ELSE "loop"
    /\ action_tag' = None
    /\ execution_successful' = FALSE
    /\ result_comment' = <<>>

\* schedule.run_pending starts a pass: process_tagged_tasks up to the for loop.
Fetch ==
    /\ pc = "idle"
    /\ passes < MaxPasses
    /\ \E api \in ApiOutcomes({"ok"}, {"raise"}) :
         LET tasks == get_tasks_by_filter(AGENT_TAG, api) IN
         /\ faults' = faults + Failed(api)
         /\ tasks_for_agent' = tasks
         /\ pc' = IF tasks = <<>> THEN "idle" ELSE "loop"
         /\ calls' = <<Call("get_tasks_by_filter", "", AGENT_TAG, "", <<>>, <<>>,
                            api, api = "ok")>>
    /\ passes' = passes + 1
    /\ prev_pass' = PassSummary(calls)
    /\ before' = store
    /\ idx' = 1
    /\ UNCHANGED <<outside_pass, store, action_tag, execution_successful, result_comment>>

SkipItem_comments ==
    /\ pc = "loop"
    /\ find_matching_tool(CurrentTask.labels, tool_registry) = None
    /\ Advance
    /\ store' = [store EXCEPT ![CurrentTask.id].comments = Append(@, <<"Skipping.">>)]
    /\ UNCHANGED <<outside_pass, passes, tasks_for_agent, calls, prev_pass,
                   before, faults>>

\* if not tool_to_execute: continue
SkipItem ==
    /\ pc = "loop"
    /\ find_matching_tool(CurrentTask.labels, tool_registry) = None
    /\ Advance
    /\ UNCHANGED <<outside_pass, store, passes, tasks_for_agent, calls, prev_pass,
                   before, faults>>

ExecuteReturns_not_reconciled ==
    /\ pc = "loop"
    /\ LET tag == find_matching_tool(CurrentTask.labels, tool_registry) IN
       /\ tag # None
       /\ \E r \in ResultTexts :
            calls' = Append(calls,
                   Call("execute", CurrentTask.id, tag, RegistryGet(tool_registry, tag),
                        r, CurrentTask.labels, "none", TRUE))
    /\ Advance
    /\ UNCHANGED <<outside_pass, store, passes, tasks_for_agent, prev_pass,
                   before, faults>>

\* tool_to_execute.execute(task_details) returns a text
ExecuteReturns ==
    /\ pc = "loop"
    /\ LET tag == find_matching_tool(CurrentTask.labels, tool_registry) IN
       /\ tag # None
       /\ \E r \in ResultTexts :
            /\ result_comment' = r
            /\ calls' = Append(calls,
                   Call("execute", CurrentTask.id, tag, RegistryGet(tool_registry, tag),
                        r, CurrentTask.labels, "none", TRUE))
       /\ action_tag' = tag
       /\ execution_successful' = TRUE
    /\ pc' = "reconcile"
    /\ UNCHANGED <<outside_pass, store, passes, tasks_for_agent, idx, prev_pass,
                   before, faults>>

AfterRaise_propagates == "idle"

\* where the pass goes once the except clause has caught what execute raised
AfterRaise == "reconcile"

\* tool_to_execute.execute(task_details) raises
ExecuteRaises ==
    /\ pc = "loop"
    /\ faults < MaxFaults
    /\ LET tag == find_matching_tool(CurrentTask.labels, tool_registry) IN
       /\ tag # None
       /\ \E e \in ErrorTexts :
            /\ result_comment' = Diagnostic(tag, e)
            /\ calls' = Append(calls,
                   Call("execute", CurrentTask.id, tag, RegistryGet(tool_registry, tag),
                        e, CurrentTask.labels, "none", FALSE))
       /\ action_tag' = tag
       /\ execution_successful' = FALSE
    /\ pc' = AfterRaise
    /\ faults' = faults + 1
    /\ UNCHANGED <<outside_pass, store, passes, tasks_for_agent, idx, prev_pass, before>>

\* self.update_task_after_processing(...) is called, and its first
\* statement: if comment: self.todoist.add_comment(...)
CommentStep ==
    /\ pc = "reconcile"
    /\ LET entered == Append(calls,
                          Call("update_task_after_processing", CurrentTask.id,
                               action_tag, "", result_comment, CurrentTask.labels,
                               "none", execution_successful))
       IN
       IF Truthy(result_comment)
       THEN \E api \in IF AddCommentCallsApi(CurrentTask.id, result_comment)
                       THEN ApiOutcomes({"ok"}, {"raise"}) ELSE {"none"} :
              /\ faults' = faults + Failed(api)
              /\ store' = add_comment(store, CurrentTask.id, result_comment, api)
              /\ calls' = Append(entered,
                     Call("add_comment", CurrentTask.id, action_tag, "", result_comment,
                          <<>>, api, store' # store))
       ELSE /\ calls' = entered
            /\ UNCHANGED <<store, faults>>
    /\ pc' = "labels"
    /\ UNCHANGED <<outside_pass, passes, tasks_for_agent, idx, action_tag,
                   execution_successful, result_comment, prev_pass, before>>

LabelsStep_retries ==
    /\ pc = "labels"
    /\ LET new == new_labels(CurrentTask.labels, action_tag, execution_successful) IN
       \E api \in ApiOutcomes({"true"}, {"false", "raise"}) :
          /\ faults' = faults + Failed(api)
          /\ store' = update_task_labels(store, CurrentTask.id, new, api)
          /\ calls' = Append(calls,
                 Call("update_task_labels", CurrentTask.id, action_tag, "", <<>>,
                      new, "none", UpdateLabelsResult(api)))
          /\ IF UpdateLabelsResult(api) THEN Advance
             ELSE UNCHANGED <<idx, pc, action_tag, execution_successful, result_comment>>
    /\ UNCHANGED <<outside_pass, passes, tasks_for_agent, prev_pass, before>>

\* update_task_after_processing: the new tag list and the tag-replace call
LabelsStep ==
    /\ pc = "labels"
    /\ LET new == new_labels(CurrentTask.labels, action_tag, execution_successful) IN
       IF LabelsChanged(new, CurrentTask.labels)
       THEN \E api \in ApiOutcomes({"true"}, {"false", "raise"}) :
              /\ faults' = faults + Failed(api)
              /\ store' = update_task_labels(store, CurrentTask.id, new, api)
              /\ calls' = Append(calls,
                     Call("update_task_labels", CurrentTask.id, action_tag, "", <<>>,
                          new, "none", UpdateLabelsResult(api)))
       ELSE UNCHANGED <<store, calls, faults>>
    /\ Advance
    /\ UNCHANGED <<outside_pass, passes, tasks_for_agent, prev_pass, before>>

\* The run's configuration and item texts when the handlers are not looked
\* into: the search key is set and the items have no text.
PlainRun ==
    /\ config = [SERPER_API_KEY |-> <<"key">>]
    /\ details = [id \in TaskIds |-> [content |-> <<>>, description |-> <<>>]]
    /\ gen = NoCall
    /\ fetched = <<>>
    /\ main_loop = [escaped_at |-> -1, interrupted |-> FALSE]

Init ==
    /\ PlainRun
    /\ tools_dir \in Listings
    /\ load_idx = Len(tools_dir) + 1
    /\ tool_registry = LoadTools(tools_dir, <<>>)
    /\ store \in [TaskIds -> [labels : LabelLists, comments : {<<>>}]]
    /\ TotalLabels(store) <= MaxTotalLabels
    /\ pc = "idle"
    /\ passes = 0
    /\ tasks_for_agent = <<>>
    /\ idx = 1
    /\ action_tag = None
    /\ execution_successful = FALSE
    /\ result_comment = <<>>
    /\ calls = <<>>
    /\ prev_pass = PassSummary(<<>>)
    /\ before = store
    /\ faults = 0

Next ==
    \/ Fetch
    \/ SkipItem
    \/ ExecuteReturns
    \/ ExecuteRaises
    \/ CommentStep
    \/ LabelsStep

Spec == Init /\ [][Next]_vars

-----------------------------------------------------------------------------
(* update_task_after_processing on its own: one call with arbitrary arguments *)

InitRecon ==
    /\ PlainRun
    /\ tools_dir = <<SearchTool, DocSummaryTool>>
    /\ load_idx = Len(tools_dir) + 1
    /\ tool_registry = LoadTools(tools_dir, <<>>)
    /\ \E original_labels \in LabelLists :
         /\ tasks_for_agent = <<[id |-> TaskOrder[1], labels |-> original_labels]>>
         /\ store = [id \in TaskIds |->
                       [labels |-> IF id = TaskOrder[1] THEN original_labels ELSE <<>>,
                        comments |-> <<>>]]
    /\ idx = 1
    /\ action_tag \in Tags \cup {None}
    /\ execution_successful \in BOOLEAN
    /\ result_comment \in ResultTexts
    /\ pc = "reconcile"
    /\ passes = 1
    /\ calls = <<>>
    /\ prev_pass = PassSummary(<<>>)
    /\ before = store
    /\ faults = 0

NextRecon ==
    \/ CommentStep
    \/ LabelsStep

SpecRecon == InitRecon /\ [][NextRecon]_vars

-----------------------------------------------------------------------------
(* A run from the point where the handler of the first fetched item has raised *)

\* The first pass has fetched, matched the first item's action tag and caught
\* what its handler raised; the failures counted from here on are the ones
\* that follow it.
InitAfterRaise ==
    /\ PlainRun
    /\ tools_dir \in Listings
    /\ load_idx = Len(tools_dir) + 1
    /\ tool_registry = LoadTools(tools_dir, <<>>)
    /\ store \in [TaskIds -> [labels : LabelLists, comments : {<<>>}]]
    /\ TotalLabels(store) <= MaxTotalLabels
    /\ tasks_for_agent = get_tasks_by_filter(AGENT_TAG, "ok")
    /\ tasks_for_agent # <<>>
    /\ idx = 1
    /\ action_tag = find_matching_tool(tasks_for_agent[1].labels, tool_registry)
    /\ action_tag # None
    /\ execution_successful = FALSE
    /\ \E e \in ErrorTexts :
         /\ result_comment = Diagnostic(action_tag, e)
         /\ calls = <<Call("get_tasks_by_filter", "", AGENT_TAG, "", <<>>, <<>>,
                           "ok", TRUE),
                      Call("execute", tasks_for_agent[1].id, action_tag,
                           RegistryGet(tool_registry, action_tag), e,
                           tasks_for_agent[1].labels, "none", FALSE)>>
    /\ pc = AfterRaise
    /\ passes = 1
    /\ prev_pass = PassSummary(<<>>)
    /\ before = store
    /\ faults = 0

SpecAfterRaise == InitAfterRaise /\ [][Next]_vars

-----------------------------------------------------------------------------
(* Agent.__init__ over a tools directory of arbitrary tool classes, then the run *)

\* The files of the tools directory, by position in the listing.
ToolFileNames == <<"a_tool", "b_tool", "c_tool", "d_tool", "e_tool">>

\* The trigger tags a tool class may declare ("" is BaseTool's default).
DeclaredTags == {"", "buscar", "resumir_doc"}

\* The tools directories: each file holds one concrete tool class, which
\* declares a trigger tag and may fail to import or to instantiate.
ToolsDirs ==
    UNION {{[i \in 1..k |-> [name |-> ToolFileNames[i],
                             TRIGGER_TAG |-> f[i][1],
                             raises |-> f[i][2]]] :
              f \in [1..k -> DeclaredTags \X {"no", "import", "init"}]} :
           k \in {n \in 1..MaxToolFiles : n <= Len(ToolFileNames)}}

LoadResume_aborts(i, dir) == Len(dir) + 1

\* where the for loop of _load_tools goes after the except clauses have
\* logged what the import or the constructor raised
LoadResume(i, dir) == i + 1

\* One iteration of the for loop of _load_tools; the constructor of
\* Agent returns after the last one.
LoadStep ==
    /\ pc = "load"
    /\ load_idx <= Len(tools_dir)
    /\ LET cls == tools_dir[load_idx]
           next == IF ImportRaises(cls) \/ InstantiateRaises(cls)
                   THEN LoadResume(load_idx, tools_dir) ELSE load_idx + 1
       IN /\ tool_registry' = LoadTools(<<cls>>, tool_registry)
          /\ load_idx' = next
          /\ pc' = IF next > Len(tools_dir) THEN "idle" ELSE "load"
    /\ UNCHANGED <<store, passes, tasks_for_agent, idx, action_tag, execution_successful,
                   result_comment, calls, prev_pass, before, faults, tools_dir,
                   config, details, gen, fetched, main_loop>>

\* One item waits with the agent tag and the search trigger tag.
InitLoad ==
    /\ PlainRun
    /\ tools_dir \in ToolsDirs
    /\ load_idx = 1
    /\ tool_registry = <<>>
    /\ store = [id \in TaskIds |->
                  [labels |-> IF id = TaskOrder[1]
                              THEN <<AGENT_TAG, SearchTool.TRIGGER_TAG>> ELSE <<>>,
                   comments |-> <<>>]]
    /\ pc = "load"
    /\ passes = 0
    /\ tasks_for_agent = <<>>
    /\ idx = 1
    /\ action_tag = None
    /\ execution_successful = FALSE
    /\ result_comment = <<>>
    /\ calls = <<>>
    /\ prev_pass = PassSummary(<<>>)
    /\ before = store
    /\ faults = 0

NextLoad ==
    \/ LoadStep
    \/ Next

SpecLoad == InitLoad /\ [][NextLoad]_vars

-----------------------------------------------------------------------------
(* The run loop of main with the interrupt signal *)

\* KeyboardInterrupt is raised in the main thread wherever it is: asleep
\* between passes, or inside schedule.run_pending in a pass.  It is not an
\* Exception, so the except clauses of the pass and of the task service let it
\* through, and main's except KeyboardInterrupt breaks out of the loop.
Interrupt ==
    /\ pc \in {"idle", "loop", "reconcile", "labels"}
    /\ pc' = "stopped"
    /\ main_loop' = [main_loop EXCEPT !.interrupted = TRUE]
    /\ UNCHANGED <<tool_registry, tools_dir, load_idx, config, details, gen, fetched,
                   store, passes, tasks_for_agent, idx, action_tag,
                   execution_successful, result_comment, calls, prev_pass, before,
                   faults>>

NextRun ==
    \/ Next
    \/ Interrupt

SpecRun == Init /\ [][NextRun]_vars

-----------------------------------------------------------------------------
(* The run loop of main with exceptions that reach it *)

EscapeResume_exits == "stopped"

\* where main's except Exception clause leaves the loop: in time.sleep(30),
\* inside the while loop
EscapeResume == "recovering"

\* An Exception leaves schedule.run_pending (out of the pass, or out of the
\* scheduler between passes) and main's except Exception clause logs it.
Escape ==
    /\ pc \in {"idle", "loop", "reconcile", "labels"}
    /\ faults < MaxFaults
    /\ faults' = faults + 1
    /\ pc' = EscapeResume
    /\ main_loop' = [main_loop EXCEPT !.escaped_at = passes]
    /\ UNCHANGED <<tool_registry, tools_dir, load_idx, config, details, gen, fetched,
                   store, passes, tasks_for_agent, idx, action_tag,
                   execution_successful, result_comment, calls, prev_pass, before>>

\* time.sleep(30) returns and the while loop goes round.
Resume ==
    /\ pc = "recovering"
    /\ pc' = "idle"
    /\ UNCHANGED <<outside_pass, store, passes, tasks_for_agent, idx, action_tag,
                   execution_successful, result_comment, calls, prev_pass, before,
                   faults>>

\* KeyboardInterrupt during time.sleep(30): the except clauses of the try
\* statement do not cover their own bodies, so it leaves main without the
\* shutdown lines.
InterruptInDelay ==
    /\ pc = "recovering"
    /\ pc' = "killed"
    /\ main_loop' = [main_loop EXCEPT !.interrupted = TRUE]
    /\ UNCHANGED <<tool_registry, tools_dir, load_idx, config, details, gen, fetched,
                   store, passes, tasks_for_agent, idx, action_tag,
                   execution_successful, result_comment, calls, prev_pass, before,
                   faults>>

\* Two items wait, each with the agent tag and a trigger tag or without.
InitLoop ==
    /\ Init
    /\ store[TaskOrder[1]].labels \in {<<AGENT_TAG, SearchTool.TRIGGER_TAG>>, <<AGENT_TAG>>}
    /\ store[TaskOrder[2]].labels \in {<<AGENT_TAG, DocSummaryTool.TRIGGER_TAG>>, <<>>}

NextLoop ==
    \/ Next
    \/ Interrupt
    \/ Escape
    \/ Resume
    \/ InterruptInDelay

SpecLoop == InitLoop /\ [][NextLoop]_vars

-----------------------------------------------------------------------------
(* Calls of the generation service, one at a time *)

InitGen ==
    /\ config = [SERPER_API_KEY |-> <<"key">>]
    /\ details = [id \in TaskIds |-> [content |-> <<>>, description |-> <<>>]]
    /\ gen = NoCall
    /\ fetched = <<>>
    /\ main_loop = [escaped_at |-> -1, interrupted |-> FALSE]
    /\ tools_dir = <<SearchTool, DocSummaryTool>>
    /\ load_idx = Len(tools_dir) + 1
    /\ tool_registry = LoadTools(tools_dir, <<>>)
    /\ store = [id \in TaskIds |-> [labels |-> <<>>, comments |-> <<>>]]
    /\ pc = "idle"
    /\ passes = 0
    /\ tasks_for_agent = <<>>
    /\ idx = 1
    /\ action_tag = None
    /\ execution_successful = FALSE
    /\ result_comment = <<>>
    /\ calls = <<>>
    /\ prev_pass = PassSummary(<<>>)
    /\ before = store
    /\ faults = 0

NextGen ==
    \/ GenCall
    \/ GenAttempt

\* The calling thread runs the call to its return.
SpecGen == InitGen /\ [][NextGen]_vars /\ WF_vars(NextGen)

-----------------------------------------------------------------------------
(* The handlers of src/tools, executed by the pass *)

\* Google Docs URLs as an item's text holds them: with a path after the
\* document id, and without one.
DocUrlEdit == "https://docs.google.com/document/d/abc/edit"
DocUrlBare == "https://docs.google.com/document/d/abc"
DocUrls == {DocUrlEdit, DocUrlBare}

\* What a configuration value, an item's content and its description can be.
ConfigValues == {<<>>, <<"key">>}
ContentTexts == {<<>>, <<"@arturito">>, <<"clima">>, <<"resumir ", DocUrlEdit>>}
DescriptionTexts == {<<>>, <<DocUrlEdit>>, <<DocUrlBare>>}

\* What the search API, the export request and the generation service answer.
SearchOutcomes == {"error", "empty", "untitled", "organic"}
HttpOutcomes == {"200", "200_blank", "403", "404", "500", "timeout"}
Summaries == {NoText, Some(<<>>), Some(<<"resumen">>)}

\* SearchTool._perform_search: None on a request error, else the organic
\* results; TRUE iff execute finds them falsy.
NoSearchResults(search) == search \in {"error", "empty"}

\* SearchTool.execute
SearchTool_execute(task, cfg, search, summary) ==
    LET query == Strip(Filter(task.content, {"@buscar", "@arturito"})) IN
    IF ~Truthy(cfg.SERPER_API_KEY)
    THEN <<"Error: SearchTool is disabled because SERPER_API_KEY is not configured.">>
    ELSE IF ~Truthy(task.content)
    THEN <<"Error: Task content is empty, cannot perform search.">>
    ELSE IF ~Truthy(query)
    THEN <<"Error: Query became empty after removing tags.">>
    ELSE IF NoSearchResults(search)
    THEN <<"No search results found for '">> \o query \o <<"' or search failed.">>
    ELSE IF search = "untitled"
    THEN <<"Could not extract usable snippets from search results for '">>
            \o query \o <<"'.">>
    ELSE IF Falsy(summary)
    THEN <<"Search completed for '">> \o query
            \o <<"', but failed to generate a summary. Links found:\n", "- titulo: enlace">>
    ELSE <<"**Resumen de Busqueda sobre: ">> \o query \o <<"**\n\n">> \o summary.text
            \o <<"\n\n", "**Fuentes Principales Consultadas:**\n", "- titulo: enlace">>

RECURSIVE find_doc_url(_)
\* DocSummaryTool._find_doc_url: the first Google Docs URL of the text, None
\* when it has none.
find_doc_url(text) ==
    IF text = <<>> THEN None
    ELSE IF Head(text) \in DocUrls THEN Head(text) ELSE find_doc_url(Tail(text))

\* GDocsService._get_export_url: None unless a "/" follows the document id.
get_export_url(doc_url) ==
    IF doc_url = DocUrlEdit
    THEN "https://docs.google.com/document/d/abc/export?format=txt"
    ELSE None

get_public_google_doc_content_any_status(doc_url, http) ==
    IF get_export_url(doc_url) = None THEN NoText
    ELSE CASE http = "200" -> Some(<<"contenido">>)
           [] http = "200_blank" -> Some(<<" ">>)
           [] http = "timeout" -> NoText
           [] OTHER -> Some(<<"pagina de error">>)

\* GDocsService.get_public_google_doc_content: the text of a 200 answer,
\* None for 404, 403, any other error status and any exception.
get_public_google_doc_content(doc_url, http) ==
    IF get_export_url(doc_url) = None THEN NoText
    ELSE CASE http = "200" -> Some(<<"contenido">>)
           [] http = "200_blank" -> Some(<<" ">>)
           [] OTHER -> NoText

\* doc_url = self._find_doc_url(task_content) or self._find_doc_url(task_description)
TaskDocUrl(task) ==
    IF find_doc_url(task.content) # None THEN find_doc_url(task.content)
    ELSE find_doc_url(task.description)

\* DocSummaryTool.execute
DocSummaryTool_execute(task, http, summary) ==
    LET doc_url == TaskDocUrl(task)
        doc_text == get_public_google_doc_content(doc_url, http)
    IN
    IF doc_url = None
    THEN <<"Error: No se encontro un enlace a Google Docs valido en la tarea.">>
    ELSE IF doc_text.is_none
    THEN <<"Error: No se pudo obtener el contenido del Google Doc (", doc_url,
           "). Verifica permisos o URL.">>
    ELSE IF ~Truthy(Strip(doc_text.text))
    THEN <<"El Google Doc (", doc_url, ") parece estar vacio.">>
    ELSE IF Falsy(summary)
    THEN <<"Se obtuvo el contenido del documento (", doc_url,
           "), pero no se pudo generar un resumen.">>
    ELSE <<"**Resumen del Documento:** ", doc_url, "\n\n">> \o summary.text

\* What the handler asked of the outside: the search, the export request,
\* or nothing.
Asked(tool, task, cfg, search, http) ==
    IF tool = SearchTool.name
    THEN IF Truthy(cfg.SERPER_API_KEY)
            /\ Truthy(Strip(Filter(task.content, {"@buscar", "@arturito"})))
         THEN search ELSE "none"
    ELSE IF TaskDocUrl(task) # None /\ get_export_url(TaskDocUrl(task)) # None
         THEN http ELSE "none"

\* tool_to_execute.execute(task_details) for the tools of src/tools: both
\* catch what their services raise and return a text.
ExecuteTool ==
    /\ pc = "loop"
    /\ LET tag == find_matching_tool(CurrentTask.labels, tool_registry) IN
       /\ tag # None
       /\ \E search \in SearchOutcomes, http \in HttpOutcomes, summary \in Summaries :
            LET tool == RegistryGet(tool_registry, tag)
                task == details[CurrentTask.id]
                r == IF tool = SearchTool.name
                     THEN SearchTool_execute(task, config, search, summary)
                     ELSE DocSummaryTool_execute(task, http, summary)
            IN /\ result_comment' = r
               /\ calls' = Append(calls,
                      Call("execute", CurrentTask.id, tag, tool, r, CurrentTask.labels,
                           Asked(tool, task, config, search, http), TRUE))
       /\ action_tag' = tag
       /\ execution_successful' = TRUE
    /\ pc' = "reconcile"
    /\ UNCHANGED <<outside_pass, store, passes, tasks_for_agent, idx, prev_pass,
                   before, faults>>

\* One item waits with the agent tag, alone or with a trigger tag.
InitTools ==
    /\ gen = NoCall
    /\ fetched = <<>>
    /\ main_loop = [escaped_at |-> -1, interrupted |-> FALSE]
    /\ config \in [SERPER_API_KEY : ConfigValues]
    /\ \E c \in ContentTexts, d \in DescriptionTexts :
         details = [id \in TaskIds |->
                      IF id = TaskOrder[1] THEN [content |-> c, description |-> d]
                      ELSE [content |-> <<>>, description |-> <<>>]]
    /\ tools_dir \in Listings
    /\ load_idx = Len(tools_dir) + 1
    /\ tool_registry = LoadTools(tools_dir, <<>>)
    /\ \E labels \in {<<AGENT_TAG>>} \cup {<<AGENT_TAG, c.TRIGGER_TAG>> : c \in ToolClasses} :
         store = [id \in TaskIds |->
                    [labels |-> IF id = TaskOrder[1] THEN labels ELSE <<>>,
                     comments |-> <<>>]]
    /\ pc = "idle"
    /\ passes = 0
    /\ tasks_for_agent = <<>>
    /\ idx = 1
    /\ action_tag = None
    /\ execution_successful = FALSE
    /\ result_comment = <<>>
    /\ calls = <<>>
    /\ prev_pass = PassSummary(<<>>)
    /\ before = store
    /\ faults = 0

NextTools ==
    \/ Fetch
    \/ SkipItem
    \/ ExecuteTool
    \/ CommentStep
    \/ LabelsStep

SpecTools == InitTools /\ [][NextTools]_vars

-----------------------------------------------------------------------------
(* TaskProcessor, the dispatch loop of src/task_processor.py *)

\* TaskProcessor._execute_tool, except clause: the literal of
\* task_processor.py holds the letter U+00F3.
TP_Diagnostic(tag, e) ==
    <<"Error: Fallo al ejecutar la acci<U+00F3>n '", tag, "'.\nDetalles: ">> \o e

RECURSIVE TP_find_matching_tool(_, _)
\* TaskProcessor._find_matching_tool: (action_tag, tool_to_execute) of the
\* first label that is not the agent tag and is a key of the registry,
\* (None, None) when the loop runs out.
TP_find_matching_tool(labels, reg) ==
    IF labels = <<>> THEN [action_tag |-> None, tool_to_execute |-> None]
    ELSE IF Head(labels) # AGENT_TAG /\ Head(labels) \in RegistryKeys(reg)
         THEN [action_tag |-> Head(labels),
               tool_to_execute |-> RegistryGet(reg, Head(labels))]
         ELSE TP_find_matching_tool(Tail(labels), reg)

\* TaskProcessor._execute_tool: (result_comment, True) when execute returns
\* text, (the diagnostic, False) when it raises text.
TP_execute_tool(tag, raised, text) ==
    IF raised
    THEN [result_comment |-> TP_Diagnostic(tag, text), success |-> FALSE]
    ELSE [result_comment |-> text, success |-> TRUE]

\* TaskProcessor._update_task_after_processing: the comprehension and the append
TP_new_labels(original_labels, tag, success) ==
    LET kept == Filter(original_labels, {AGENT_TAG, tag})
    IN IF success THEN Append(kept, DONE_TAG) ELSE kept

\* TaskProcessor.process_tagged_tasks up to the for loop
TP_Fetch ==
    /\ pc = "idle"
    /\ passes < MaxPasses
    /\ \E api \in ApiOutcomes({"ok"}, {"raise"}) :
         LET tasks == get_tasks_by_filter(AGENT_TAG, api) IN
         /\ faults' = faults + Failed(api)
         /\ tasks_for_agent' = tasks
         /\ pc' = IF tasks = <<>> THEN "idle" ELSE "loop"
         /\ calls' = <<Call("get_tasks_by_filter", "", AGENT_TAG, "", <<>>, <<>>,
                            api, api = "ok")>>
    /\ passes' = passes + 1
    /\ prev_pass' = PassSummary(calls)
    /\ before' = store
    /\ idx' = 1
    /\ UNCHANGED <<outside_pass, store, action_tag, execution_successful, result_comment>>

\* if not tool_to_execute: continue
TP_SkipItem ==
    /\ pc = "loop"
    /\ TP_find_matching_tool(CurrentTask.labels, tool_registry).tool_to_execute = None
    /\ Advance
    /\ UNCHANGED <<outside_pass, store, passes, tasks_for_agent, calls, prev_pass,
                   before, faults>>

\* result_comment, execution_successful = self._execute_tool(...)
TP_ExecuteTool ==
    /\ pc = "loop"
    /\ LET found == TP_find_matching_tool(CurrentTask.labels, tool_registry) IN
       /\ found.tool_to_execute # None
       /\ \E raised \in IF faults < MaxFaults THEN BOOLEAN ELSE {FALSE} :
          \E text \in IF raised THEN ErrorTexts ELSE ResultTexts :
            LET r == TP_execute_tool(found.action_tag, raised, text) IN
            /\ result_comment' = r.result_comment
            /\ execution_successful' = r.success
            /\ calls' = Append(calls,
                   Call("execute", CurrentTask.id, found.action_tag,
                        found.tool_to_execute, text, CurrentTask.labels, "none",
                        r.success))
            /\ faults' = faults + (IF raised THEN 1 ELSE 0)
       /\ action_tag' = found.action_tag
    /\ pc' = "reconcile"
    /\ UNCHANGED <<outside_pass, store, passes, tasks_for_agent, idx, prev_pass, before>>

\* _update_task_after_processing: the comment
TP_CommentStep ==
    /\ pc = "reconcile"
    /\ LET entered == Append(calls,
                          Call("update_task_after_processing", CurrentTask.id,
                               action_tag, "", result_comment, CurrentTask.labels,
                               "none", execution_successful))
       IN
       IF Truthy(result_comment)
       THEN \E api \in IF AddCommentCallsApi(CurrentTask.id, result_comment)
                       THEN ApiOutcomes({"ok"}, {"raise"}) ELSE {"none"} :
              /\ faults' = faults + Failed(api)
              /\ store' = add_comment(store, CurrentTask.id, result_comment, api)
              /\ calls' = Append(entered,
                     Call("add_comment", CurrentTask.id, action_tag, "", result_comment,
                          <<>>, api, store' # store))
       ELSE /\ calls' = entered
            /\ UNCHANGED <<store, faults>>
    /\ pc' = "labels"
    /\ UNCHANGED <<outside_pass, passes, tasks_for_agent, idx, action_tag,
                   execution_successful, result_comment, prev_pass, before>>

\* _update_task_after_processing: the new tag list and the tag-replace call
TP_LabelsStep ==
    /\ pc = "labels"
    /\ LET new == TP_new_labels(CurrentTask.labels, action_tag, execution_successful) IN
       IF Sorted(new) # Sorted(CurrentTask.labels)
       THEN \E api \in ApiOutcomes({"true"}, {"false", "raise"}) :
              /\ faults' = faults + Failed(api)
              /\ store' = update_task_labels(store, CurrentTask.id, new, api)
              /\ calls' = Append(calls,
                     Call("update_task_labels", CurrentTask.id, action_tag, "", <<>>,
                          new, "none", UpdateLabelsResult(api)))
       ELSE UNCHANGED <<store, calls, faults>>
    /\ Advance
    /\ UNCHANGED <<outside_pass, passes, tasks_for_agent, prev_pass, before>>

NextTP ==
    \/ TP_Fetch
    \/ TP_SkipItem
    \/ TP_ExecuteTool
    \/ TP_CommentStep
    \/ TP_LabelsStep

\* TaskProcessor built over the same task service and registry as the agent.
SpecTP == Init /\ [][NextTP]_vars

-----------------------------------------------------------------------------
(* The document service called on its own *)

MaxDocFetches == 3

\* A URL that is not a Google Docs document URL.
OtherUrl == "https://example.com/document/12345/edit"
UrlInputs == DocUrls \cup {OtherUrl}

\* The text a 200 answer carries, NoText when the request brought no text.
ResponseText(http) ==
    CASE http = "200" -> Some(<<"contenido">>)
      [] http = "200_blank" -> Some(<<" ">>)
      [] OTHER -> NoText

\* One call of get_public_google_doc_content: the export request is made
\* only when the URL has an export URL.
GetDoc ==
    /\ Len(fetched) < MaxDocFetches
    /\ \E doc_url \in UrlInputs, answer \in HttpOutcomes :
         LET http == IF get_export_url(doc_url) = None THEN "none" ELSE answer IN
         fetched' = Append(fetched,
                           [doc_url |-> doc_url, http |-> http,
                            result |-> get_public_google_doc_content(doc_url, http)])
    /\ UNCHANGED <<tool_registry, store, pc, passes, tasks_for_agent, idx, action_tag,
                   execution_successful, result_comment, calls, prev_pass, before,
                   faults, tools_dir, load_idx, config, details, gen, main_loop>>

InitDocs == InitGen

NextDocs == GetDoc

SpecDocs == InitDocs /\ [][NextDocs]_vars

-----------------------------------------------------------------------------
(* What the properties below read *)

\* The trigger tags of the tool classes the repository ships.
RegisteredTags == {c.TRIGGER_TAG : c \in ToolClasses}

ToolOf(tag) == (CHOOSE c \in ToolClasses : c.TRIGGER_TAG = tag).name

\* The positions of a tag list that hold a recognised action tag.
ActionPositions(labels) ==
    {i \in 1..Len(labels) : labels[i] # AGENT_TAG /\ labels[i] \in RegisteredTags}

Min(S) == CHOOSE x \in S : \A y \in S : x <= y

FirstActionTag(labels) == labels[Min(ActionPositions(labels))]

\* labels without the agent tag and without tag, in their order
Without(labels, tag) ==
    LET Keep(x) == x # AGENT_TAG /\ x # tag IN SelectSeq(labels, Keep)

Count(labels, t) == Cardinality({i \in 1..Len(labels) : labels[i] = t})

Contains(text, part) ==
    \E o \in 0..(Len(text) - Len(part)) : SubSeq(text, o + 1, o + Len(part)) = part

CallsOf(op, id) == {k \in 1..Len(calls) : calls[k].op = op /\ calls[k].id = id}

\* The texts the pass has posted on an item, in order.
Posted(id) ==
    LET Is(c) == c.op = "add_comment" /\ c.id = id /\ c.ok
        Sel == SelectSeq(calls, Is)
    IN [k \in 1..Len(Sel) |-> Sel[k].text]

PassReturned == pc = "idle" /\ passes > 0

-----------------------------------------------------------------------------
(* The properties *)

\* C1: every handler execution of a pass is for the first tag, in the item's
\* own tag order, that is not the agent tag and is a trigger tag of a loaded
\* handler, and runs the handler registered under that tag, whatever the
\* order the handlers were registered in.
C1_FirstActionTagWins ==
    \A k \in 1..Len(calls) :
        calls[k].op = "execute" =>
            /\ ActionPositions(calls[k].labels) # {}
            /\ calls[k].tag = FirstActionTag(calls[k].labels)
            /\ calls[k].tool = ToolOf(calls[k].tag)

\* an item carrying both trigger tags was dispatched to the handler that was
\* registered last
C1_Witness ==
    \E k \in 1..Len(calls) :
        /\ calls[k].op = "execute"
        /\ Cardinality(ActionPositions(calls[k].labels)) = 2
        /\ calls[k].tag = tool_registry[Len(tool_registry)].tag

\* C2: a fetched item that carries the agent tag and no trigger tag gets no
\* handler execution, no comment and no tag-replace call in the pass, and
\* its tags and comments stay what they were when the pass started.
C2_SkipLeavesItemUntouched ==
    \A i \in 1..Len(tasks_for_agent) :
        LET t == tasks_for_agent[i] IN
        (AGENT_TAG \in Range(t.labels) /\ Range(t.labels) \cap RegisteredTags = {}) =>
            /\ \A k \in 1..Len(calls) : calls[k].id # t.id
            /\ store[t.id] = before[t.id]

\* a pass has returned that skipped one item and dispatched another
C2_Witness ==
    /\ PassReturned
    /\ idx > Len(tasks_for_agent)
    /\ \E i \in 1..Len(tasks_for_agent) :
          /\ AGENT_TAG \in Range(tasks_for_agent[i].labels)
          /\ Range(tasks_for_agent[i].labels) \cap RegisteredTags = {}
    /\ \E k \in 1..Len(calls) : calls[k].op = "execute"

\* C3: when the handler returned without raising, the new tag list has no
\* agent tag, no matched action tag, and has the done marker.
C3_SuccessTags ==
    /\ (pc \in {"reconcile", "labels"} /\ execution_successful) =>
          LET new == new_labels(CurrentTask.labels, action_tag, TRUE) IN
          /\ AGENT_TAG \notin Range(new)
          /\ action_tag \notin Range(new)
          /\ DONE_TAG \in Range(new)
    /\ \A k \in 1..Len(calls) :
          (calls[k].op = "update_task_labels"
             /\ \E e \in CallsOf("execute", calls[k].id) : calls[e].ok) =>
              /\ AGENT_TAG \notin Range(calls[k].labels)
              /\ calls[k].tag \notin Range(calls[k].labels)
              /\ DONE_TAG \in Range(calls[k].labels)

\* the task service holds the new tag list of an item whose handler returned
C3_Witness ==
    \E k \in 1..Len(calls) :
        /\ calls[k].op = "update_task_labels"
        /\ calls[k].ok
        /\ \E e \in CallsOf("execute", calls[k].id) : calls[e].ok
        /\ store[calls[k].id].labels = calls[k].labels

\* The comment a failed execution leads to: the diagnostic with the action
\* tag and the error description, passed to add_comment once.
FailureComment(e) ==
    /\ \A c \in CallsOf("add_comment", calls[e].id) :
          /\ calls[e].tag \in Range(calls[c].text)
          /\ Contains(calls[c].text, calls[e].text)
          /\ calls[c].text # calls[e].text
    /\ Cardinality(CallsOf("add_comment", calls[e].id)) <= 1
    /\ \A u \in CallsOf("update_task_labels", calls[e].id) :
          Cardinality(CallsOf("add_comment", calls[e].id)) = 1
    /\ Posted(calls[e].id) # <<>> =>
          store[calls[e].id].comments = before[calls[e].id].comments \o Posted(calls[e].id)

\* C4 as stated: when the handler raised, the new tag list has no done
\* marker, no agent tag and no matched action tag, and the comment is the
\* diagnostic with the action tag and the error description.
C4_FailureTagsNoDoneMarker ==
    \A e \in 1..Len(calls) :
        (calls[e].op = "execute" /\ ~calls[e].ok) =>
            /\ FailureComment(e)
            /\ \A u \in CallsOf("update_task_labels", calls[e].id) :
                  /\ AGENT_TAG \notin Range(calls[u].labels)
                  /\ calls[e].tag \notin Range(calls[u].labels)
                  /\ DONE_TAG \notin Range(calls[u].labels)

\* C4, amended: when the handler raised, the new tag list has no agent tag
\* and no matched action tag, and no done marker is added to it (it has one
\* only if the item already carried one); the comment is the diagnostic
\* with the action tag and the error description.
C4_FailureTagsNoDoneAdded ==
    \A e \in 1..Len(calls) :
        (calls[e].op = "execute" /\ ~calls[e].ok) =>
            /\ FailureComment(e)
            /\ \A u \in CallsOf("update_task_labels", calls[e].id) :
                  /\ AGENT_TAG \notin Range(calls[u].labels)
                  /\ calls[e].tag \notin Range(calls[u].labels)
                  /\ Count(calls[u].labels, DONE_TAG) = Count(calls[e].labels, DONE_TAG)

\* a handler raised, the diagnostic was posted and the tags were replaced
C4_Witness ==
    \E e \in 1..Len(calls) :
        /\ calls[e].op = "execute"
        /\ ~calls[e].ok
        /\ Posted(calls[e].id) # <<>>
        /\ \E u \in CallsOf("update_task_labels", calls[e].id) : calls[u].ok

\* What a returned pass has done for the fetched item at position i.
Handled(i) ==
    LET t == tasks_for_agent[i] IN
    IF ActionPositions(t.labels) = {}
    THEN \A k \in 1..Len(calls) : calls[k].id # t.id
    ELSE /\ Cardinality(CallsOf("execute", t.id)) = 1
         /\ Cardinality(CallsOf("update_task_labels", t.id)) = 1
         /\ \A e \in CallsOf("execute", t.id) :
               /\ calls[e].tag = FirstActionTag(t.labels)
               /\ \A u \in CallsOf("update_task_labels", t.id) :
                     /\ e < u
                     /\ calls[u].labels =
                          Without(t.labels, calls[e].tag)
                             \o (IF calls[e].ok THEN <<DONE_TAG>> ELSE <<>>)

\* C5: a handler that raises does not abort the pass: when the pass returns,
\* every fetched item has been matched, executed and reconciled, from its
\* own tags and its own outcome alone.
C5_FailureDoesNotAbortPass ==
    PassReturned =>
        /\ idx > Len(tasks_for_agent)
        /\ \A i \in 1..Len(tasks_for_agent) : Handled(i)

\* the first item's handler raised and the second item's handler then ran
C5_Witness ==
    /\ PassReturned
    /\ Len(tasks_for_agent) = 2
    /\ \E e \in CallsOf("execute", tasks_for_agent[1].id) : ~calls[e].ok
    /\ \E e \in CallsOf("execute", tasks_for_agent[2].id) : calls[e].ok

\* C6 as stated: once reconciliation has dealt with the comment, the item
\* has the result text as a new comment whenever that text is non-empty,
\* and no new comment when it is empty.
C6_CommentWheneverNonEmpty ==
    pc = "labels" =>
        store[CurrentTask.id].comments =
            IF Len(result_comment) > 0
            THEN Append(before[CurrentTask.id].comments, result_comment)
            ELSE before[CurrentTask.id].comments

\* C6, amended: reconciliation passes the result text to add_comment
\* whenever it is non-empty and never when it is empty; the text becomes a
\* comment of the item exactly when it is not whitespace only and the
\* comment API call succeeds.
C6_CommentWhenNotBlankAndApiOk ==
    pc = "labels" =>
        LET id == CurrentTask.id
            cs == CallsOf("add_comment", id)
            blank == \A i \in 1..Len(result_comment) : result_comment[i] \in Whitespace
        IN
        /\ Len(result_comment) = 0 => cs = {}
        /\ Len(result_comment) > 0 =>
              /\ Cardinality(cs) = 1
              /\ \A c \in cs :
                    /\ calls[c].text = result_comment
                    /\ calls[c].ok <=> (~blank /\ calls[c].api = "ok")
        /\ store[id].comments = before[id].comments \o Posted(id)
        /\ Len(Posted(id)) <= 1

\* a non-empty result text has become the item's comment
C6_Witness ==
    /\ pc = "labels"
    /\ Posted(CurrentTask.id) = <<result_comment>>
    /\ store[CurrentTask.id].comments = <<result_comment>>

\* C7: a pass fetches once, first; when the fetch fails the pass has
\* returned with no handler executed, no comment posted and no tags
\* replaced.
C7_FetchFailureEndsPass ==
    calls # <<>> =>
        /\ calls[1].op = "get_tasks_by_filter"
        /\ \A k \in 2..Len(calls) : calls[k].op # "get_tasks_by_filter"
        /\ ~calls[1].ok =>
              /\ Len(calls) = 1
              /\ pc = "idle"
              /\ tasks_for_agent = <<>>
              /\ store = before

\* the fetch failed while an item was waiting with the agent tag and a
\* trigger tag
C7_Witness ==
    /\ calls # <<>>
    /\ ~calls[1].ok
    /\ \E id \in TaskIds :
          /\ AGENT_TAG \in Range(store[id].labels)
          /\ ActionPositions(store[id].labels) # {}

SameSet(a, b) == Range(a) = Range(b)

SameMultiset(a, b) == \A t \in Range(a) \cup Range(b) : Count(a, t) = Count(b, t)

\* The tag-replace step of reconciliation: no call when Same(new, original),
\* else one call with the full new tag list.
ReplaceStep(Same(_, _)) ==
    pc = "labels" =>
        LET original == CurrentTask.labels
            new == Without(original, action_tag)
                      \o (IF execution_successful THEN <<DONE_TAG>> ELSE <<>>)
        IN IF Same(new, original)
           THEN calls' = calls /\ store' = store
           ELSE /\ Len(calls') = Len(calls) + 1
                /\ calls'[Len(calls')].op = "update_task_labels"
                /\ calls'[Len(calls')].id = CurrentTask.id
                /\ calls'[Len(calls')].labels = new
                /\ SubSeq(calls', 1, Len(calls)) = calls

C9_ReplaceFailureNotRetried ==
    /\ \A id \in TaskIds : Cardinality(CallsOf("update_task_labels", id)) <= 1
    /\ \A u \in 1..Len(calls) :
          (calls[u].op = "update_task_labels" /\ ~calls[u].ok) =>
              LET id == calls[u].id IN
              /\ store[id].labels = before[id].labels
              /\ store[id].comments = before[id].comments \o Posted(id)
              /\ \A c \in CallsOf("add_comment", id) : c < u
              /\ pc # "idle" => CurrentTask.id # id
              /\ PassReturned =>
                    \A i \in 1..Len(tasks_for_agent) : Handled(i)

\* tag-replace failed for the first item after its comment was posted, and
\* the second item was then executed
C9_Witness ==
    /\ PassReturned
    /\ Len(tasks_for_agent) = 2
    /\ \E u \in CallsOf("update_task_labels", tasks_for_agent[1].id) : ~calls[u].ok
    /\ Posted(tasks_for_agent[1].id) # <<>>
    /\ CallsOf("execute", tasks_for_agent[2].id) # {}

\* What a pass does to an item it leaves alone.
LeftAlone(id) ==
    /\ \A k \in 1..Len(calls) : calls[k].id # id
    /\ store[id] = before[id]

\* C10 as stated: an item whose handler returned in the pass before is left
\* alone by this pass: no handler execution, no comment, no tag change.
C10_RerunAfterSuccessIsNoOp ==
    \A id \in TaskIds : prev_pass[id].handler = "returned" => LeftAlone(id)

\* C10, amended: an item whose handler returned in the pass before, and
\* whose tag-replace call then succeeded, is left alone by this pass.
C10_RerunAfterWrittenSuccessIsNoOp ==
    \A id \in TaskIds :
        (prev_pass[id].handler = "returned" /\ prev_pass[id].written) => LeftAlone(id)

\* a second pass has run over another item after the first pass processed
\* an item and replaced its tags
C10_Witness ==
    /\ PassReturned
    /\ passes = 2
    /\ tasks_for_agent # <<>>
    /\ \E id \in TaskIds : prev_pass[id].handler = "returned" /\ prev_pass[id].written

\* C11 as stated: an item whose handler raised in the pass before no longer
\* carries the action tag it was dispatched for, and this pass leaves it
\* alone; so does every pass over an item that carries no agent tag.
C11_FailedItemNotRetried ==
    /\ \A id \in TaskIds :
          prev_pass[id].handler = "raised" =>
              /\ prev_pass[id].tag \notin Range(before[id].labels)
              /\ LeftAlone(id)
    /\ \A id \in TaskIds : AGENT_TAG \notin Range(before[id].labels) => LeftAlone(id)

\* C11, amended: an item whose handler raised in the pass before, and whose
\* tag-replace call then succeeded, carries neither the agent tag nor the
\* action tag it was dispatched for, and this pass leaves it alone; every
\* pass leaves alone an item that carries no agent tag, so the item is not
\* dispatched in any later pass while nothing else changes its tags.
C11_FailedWrittenItemNotRetried ==
    /\ \A id \in TaskIds :
          (prev_pass[id].handler = "raised" /\ prev_pass[id].written) =>
              /\ AGENT_TAG \notin Range(before[id].labels)
              /\ prev_pass[id].tag \notin Range(before[id].labels)
              /\ LeftAlone(id)
    /\ \A id \in TaskIds : AGENT_TAG \notin Range(before[id].labels) => LeftAlone(id)

\* a later pass has run over another item after the pass in which a handler
\* raised and the failed item's tags were replaced
C11_Witness ==
    /\ PassReturned
    /\ passes >= 2
    /\ \E k \in 1..Len(calls) : calls[k].op = "execute"
    /\ \E id \in TaskIds :
          /\ prev_pass[id].handler = "raised"
          /\ prev_pass[id].written
          /\ LeftAlone(id)

\* The tool classes of the directory that import and instantiate.
Instantiated(i) == tools_dir[i].raises = "no" /\ tools_dir[i].TRIGGER_TAG # ""

\* The positions in the directory of the instantiated classes declaring tag.
Declaring(tag) ==
    {i \in 1..Len(tools_dir) : Instantiated(i) /\ tools_dir[i].TRIGGER_TAG = tag}

Max(S) == CHOOSE x \in S : \A y \in S : x >= y

RegisteredTools == {tool_registry[j].tool : j \in 1..Len(tool_registry)}

LoadingDone == pc # "load"

\* C12: after loading, a trigger tag that several instantiated classes
\* declare has one registry entry, the class registered last, and that class
\* alone is executed, once, for an item carrying the tag.
C12_LastRegisteredWins ==
    LoadingDone =>
        /\ \A tag \in DeclaredTags :
              Declaring(tag) # {} =>
                  /\ Cardinality({j \in 1..Len(tool_registry) :
                                      tool_registry[j].tag = tag}) = 1
                  /\ RegistryGet(tool_registry, tag) = tools_dir[Max(Declaring(tag))].name
        /\ \A k \in 1..Len(calls) :
              calls[k].op = "execute" =>
                  /\ calls[k].tool = tools_dir[Max(Declaring(calls[k].tag))].name
                  /\ Cardinality(CallsOf("execute", calls[k].id)) = 1

\* two classes declaring the same trigger tag were registered and an item
\* carrying the tag was dispatched
C12_Witness ==
    /\ LoadingDone
    /\ \E k \in 1..Len(calls) :
          /\ calls[k].op = "execute"
          /\ Cardinality(Declaring(calls[k].tag)) >= 2

\* C13: a class that declares a blank trigger tag is never inserted: at
\* every point of loading and after it the registry has no blank key and
\* none of its entries is such a class.
C13_NoBlankKey ==
    /\ "" \notin RegistryKeys(tool_registry)
    /\ \A i \in 1..Len(tools_dir) :
          tools_dir[i].TRIGGER_TAG = "" => tools_dir[i].name \notin RegisteredTools

\* loading is over a directory with a class that declares no trigger tag
\* and whose own constructor does not raise, and another class is registered
C13_Witness ==
    /\ LoadingDone
    /\ tool_registry # <<>>
    /\ \E i \in 1..Len(tools_dir) :
          tools_dir[i].TRIGGER_TAG = "" /\ tools_dir[i].raises = "no"

\* C14: when loading is over every class of the directory has been tried:
\* a class that failed to import or to instantiate is not in the registry,
\* and every other class is registered under its trigger tag (or a class
\* loaded after it under the same tag is).
C14_LoadingContinuesAfterFailure ==
    LoadingDone =>
        /\ load_idx = Len(tools_dir) + 1
        /\ \A i \in 1..Len(tools_dir) :
              IF Instantiated(i)
              THEN /\ tools_dir[i].TRIGGER_TAG \in RegistryKeys(tool_registry)
                   /\ \/ tools_dir[i].name \in RegisteredTools
                      \/ \E j \in Declaring(tools_dir[i].TRIGGER_TAG) : j > i
              ELSE tools_dir[i].name \notin RegisteredTools

\* a class failed to instantiate and a class after it in the directory is
\* registered
C14_Witness ==
    /\ LoadingDone
    /\ \E i, j \in 1..Len(tools_dir) :
          /\ i < j
          /\ tools_dir[i].raises = "init"
          /\ Instantiated(j)
          /\ tools_dir[j].name \in RegisteredTools

\* C15 as stated: when the search key is missing from the configuration the
\* search handler is not in the registry, no pass executes it, and an item
\* carrying its trigger tag gets no handler execution.
C15_MissingCredentialNotRegistered ==
    ~Truthy(config.SERPER_API_KEY) =>
        /\ SearchTool.TRIGGER_TAG \notin RegistryKeys(tool_registry)
        /\ \A k \in 1..Len(calls) :
              calls[k].op = "execute" =>
                  /\ calls[k].tool # SearchTool.name
                  /\ calls[k].tag # SearchTool.TRIGGER_TAG

\* C16 as stated: when the export of the item's document answers 403 the
\* execution counts as failed, the new tag list has no agent tag, no
\* action tag and no done marker, and the comment is an error text that holds
\* the URL.
C16_Doc403IsExecutionFailure ==
    \A e \in 1..Len(calls) :
        (calls[e].op = "execute" /\ calls[e].tag = DocSummaryTool.TRIGGER_TAG
            /\ calls[e].api = "403") =>
            /\ ~calls[e].ok
            /\ \A u \in CallsOf("update_task_labels", calls[e].id) :
                  /\ AGENT_TAG \notin Range(calls[u].labels)
                  /\ calls[e].tag \notin Range(calls[u].labels)
                  /\ DONE_TAG \notin Range(calls[u].labels)
            /\ \A c \in CallsOf("add_comment", calls[e].id) :
                  \E url \in DocUrls : url \in Range(calls[c].text)

RECURSIVE Pow(_, _)
Pow(b, n) == IF n = 0 THEN 1 ELSE b * Pow(b, n - 1)

\* The answer the last attempt of the call got.
LastAnswer == gen.attempts[Len(gen.attempts)]

GenReturned == gen.pc = "returned"

\* What holds of a generation-service call at every point.
BoundedRetries ==
    /\ Len(gen.attempts) <= MAX_RETRIES
    /\ \A k \in 1..(Len(gen.attempts) - 1) : gen.attempts[k] \in Transient
    /\ \A k \in 1..Len(gen.slept) :
          gen.slept[k] = INITIAL_BACKOFF_SECONDS * Pow(BACKOFF_FACTOR, k - 1)
    /\ gen.pc = "loop" => Len(gen.slept) = Len(gen.attempts)
    /\ (GenReturned /\ gen.attempts # <<>>) =>
          /\ Len(gen.slept) = Len(gen.attempts) - 1
          /\ LastAnswer \in Transient =>
                (Len(gen.attempts) = MAX_RETRIES /\ gen.result = NoText)

\* C17: a generation-service call makes at most MAX_RETRIES attempts, each
\* but the last one after a transient server error and after a wait that
\* starts at INITIAL_BACKOFF_SECONDS and doubles each time; when the last
\* attempt fails with a transient error too it returns None; and the call
\* always returns.
C17_BoundedRetriesWithBackoff == []BoundedRetries /\ <>GenReturned

\* three attempts failed with transient errors, with waits of 2 and 4
\* seconds between them, and the call returned None
C17_Witness ==
    /\ GenReturned
    /\ Len(gen.attempts) = MAX_RETRIES
    /\ LastAnswer \in Transient
    /\ gen.slept = <<2, 4>>
    /\ gen.result = NoText

\* C18 as stated: a blocked response is never retried and a transient error
\* is, and what the call returns for a blocked response differs from what
\* it returns for a failure (None).
C18_BlockedDistinguishableFromFail ==
    (GenReturned /\ gen.attempts # <<>>) =>
        /\ \A k \in 1..(Len(gen.attempts) - 1) : gen.attempts[k] \in Transient
        /\ LastAnswer \in Transient => Len(gen.attempts) = MAX_RETRIES
        /\ LastAnswer \in ErrorAnswers => gen.result = NoText
        /\ LastAnswer = "blocked" => gen.result # NoText

\* C18, amended: a blocked response is never retried and a transient error
\* is, but the call returns None for a blocked response as it does for a
\* failure, so the caller gets the same value for both.
C18_BlockedNotRetriedSameReturn ==
    (GenReturned /\ gen.attempts # <<>>) =>
        /\ \A k \in 1..(Len(gen.attempts) - 1) : gen.attempts[k] \in Transient
        /\ LastAnswer \in Transient => Len(gen.attempts) = MAX_RETRIES
        /\ LastAnswer \in ErrorAnswers \cup {"blocked"} => gen.result = NoText

\* a transient error was retried and the next attempt was blocked
C18_Witness ==
    /\ GenReturned
    /\ Len(gen.attempts) = 2
    /\ gen.attempts[1] \in Transient
    /\ LastAnswer = "blocked"

\* C19 as stated: when an interrupt has stopped the run, no item is left
\* half-updated: every item the pass posted a comment on has had its tags
\* replaced, and the pass the interrupt came in had gone through all its
\* items.
C19_InterruptNeverTearsItem ==
    pc = "stopped" =>
        \A id \in TaskIds :
            Posted(id) # <<>> =>
                /\ \E u \in CallsOf("update_task_labels", id) : TRUE
                /\ idx > Len(tasks_for_agent)

\* C20: in a pass, a fetched item with a trigger tag of a loaded handler has
\* its handler executed once and then update_task_after_processing called
\* once, with the outcome of that execution, whether it returned or raised;
\* a fetched item without such a tag gets neither.
C20_ExactlyOnceExecutionAndReconciliation ==
    \A i \in 1..Len(tasks_for_agent) :
        LET id == tasks_for_agent[i].id
            executions == CallsOf("execute", id)
            reconciliations == CallsOf("update_task_after_processing", id)
        IN
        /\ Cardinality(executions) <= 1
        /\ Cardinality(reconciliations) <= 1
        /\ \A r \in reconciliations :
              \E e \in executions : e < r /\ calls[r].ok = calls[e].ok
        /\ ActionPositions(tasks_for_agent[i].labels) = {} =>
              (executions = {} /\ reconciliations = {})
        /\ (ActionPositions(tasks_for_agent[i].labels) # {} /\ i < idx) =>
              (Cardinality(executions) = 1 /\ Cardinality(reconciliations) = 1)

\* a pass has returned in which one item's handler raised and was
\* reconciled and another item was skipped
C20_Witness ==
    /\ PassReturned
    /\ idx > Len(tasks_for_agent)
    /\ \E i, j \in 1..Len(tasks_for_agent) :
          /\ \E e \in CallsOf("execute", tasks_for_agent[i].id) : ~calls[e].ok
          /\ CallsOf("update_task_after_processing", tasks_for_agent[i].id) # {}
          /\ ActionPositions(tasks_for_agent[j].labels) = {}

\* C21: an item that does not carry the agent tag when a pass starts gets no
\* handler execution, no comment and no tag-replace call in that pass, and
\* its tags and comments stay what they were.
C21_UntaggedItemsUntouched ==
    \A id \in TaskIds : AGENT_TAG \notin Range(before[id].labels) => LeftAlone(id)

\* a pass has dispatched one item while another item carried a trigger tag
\* without the agent tag
C21_Witness ==
    /\ PassReturned
    /\ \E k \in 1..Len(calls) : calls[k].op = "execute"
    /\ \E id \in TaskIds :
          /\ AGENT_TAG \notin Range(before[id].labels)
          /\ ActionPositions(before[id].labels) # {}

\* The position of an item in the fetched list.
FetchPosition(id) ==
    CHOOSE i \in 1..Len(tasks_for_agent) : tasks_for_agent[i].id = id

\* The order of the steps taken for one item.
StepRank(op) ==
    CASE op = "execute" -> 1
      [] op = "update_task_after_processing" -> 2
      [] op = "add_comment" -> 3
      [] op = "update_task_labels" -> 4
      [] OTHER -> 0

\* C22: the handler executions, comments and tag writes of a pass come item
\* by item in the order of the fetched list: nothing is done for an item
\* after something was done for a later one, nothing for an item beyond the
\* one the loop is at, and for one item the execution comes before the
\* comment and the comment before the tag write.
C22_ItemsInFetchOrder ==
    \A k, l \in 2..Len(calls) :
        /\ \E i \in 1..Len(tasks_for_agent) : tasks_for_agent[i].id = calls[k].id
        /\ FetchPosition(calls[k].id) <= idx
        /\ k < l =>
              /\ FetchPosition(calls[k].id) <= FetchPosition(calls[l].id)
              /\ calls[k].id = calls[l].id =>
                    StepRank(calls[k].op) < StepRank(calls[l].op)

\* a pass has executed, commented on and re-tagged two items
C22_Witness ==
    /\ PassReturned
    /\ Len(tasks_for_agent) = 2
    /\ \A i \in 1..2 :
          /\ CallsOf("execute", tasks_for_agent[i].id) # {}
          /\ CallsOf("add_comment", tasks_for_agent[i].id) # {}
          /\ CallsOf("update_task_labels", tasks_for_agent[i].id) # {}

\* C23: a task-service call whose API failed returns something the caller
\* can tell from a success: a failed fetch does not return what a successful
\* fetch of the same task service returns, a failed comment post and a
\* failed tag replace are reported as not done.
C23_ApiFailuresDistinguishable ==
    /\ (/\ Len(calls) = 1
         /\ calls[1].op = "get_tasks_by_filter"
         /\ calls[1].api = "raise")
        => tasks_for_agent # get_tasks_by_filter(AGENT_TAG, "ok")
    /\ \A k \in 1..Len(calls) :
          /\ (calls[k].op = "add_comment" /\ calls[k].api = "raise") => ~calls[k].ok
          /\ (calls[k].op = "add_comment" /\ calls[k].api = "ok") => calls[k].ok

\* C24: get_public_google_doc_content returns the text of the answer when
\* the export answers 200, and returns None when the URL is not a Google
\* Docs document URL, when the export answers 403 or 404 and when the
\* request raises; it returns in every case.
C24_DocTextOr_None ==
    \A k \in 1..Len(fetched) :
        LET f == fetched[k] IN
        /\ f.result \in {NoText} \cup {Some(t) : t \in {<<"contenido">>, <<" ">>}}
        /\ f.http \in {"200", "200_blank"} => f.result = ResponseText(f.http)
        /\ f.doc_url = OtherUrl => f.result = NoText /\ f.http = "none"
        /\ f.http \in {"403", "404", "timeout"} => f.result = NoText

\* the service was called with a URL outside Google Docs and with a document
\* URL whose export answered 403
C24_Witness ==
    /\ \E k \in 1..Len(fetched) : fetched[k].doc_url = OtherUrl
    /\ \E k \in 1..Len(fetched) :
          fetched[k].doc_url = DocUrlEdit /\ fetched[k].http = "403"

\* The handler's external work failed: the search failed or found nothing,
\* the document could not be fetched, or no summary was generated.
ExternalWorkFailed(call) ==
    \/ call.api \in {"error", "empty"}
    \/ call.api \in {"403", "404", "500", "timeout"}
    \/ \E chunk \in Range(call.text) :
          chunk \in {"', but failed to generate a summary. Links found:\n",
                     "), pero no se pudo generar un resumen."}

\* C25 as stated: an item whose handler's external work failed is reconciled
\* as failed and no tag list written for it holds the done marker.
C25_DoneOnlyAfterExternalSuccess ==
    \A e \in 1..Len(calls) :
        (calls[e].op = "execute" /\ ExternalWorkFailed(calls[e])) =>
            /\ \A r \in CallsOf("update_task_after_processing", calls[e].id) :
                  ~calls[r].ok
            /\ \A u \in CallsOf("update_task_labels", calls[e].id) :
                  DONE_TAG \notin Range(calls[u].labels)

\* The pass has finished reconciling the item.
Reconciled(id) ==
    /\ CallsOf("update_task_after_processing", id) # {}
    /\ pc = "idle" \/ FetchPosition(id) < idx

\* C26: for every dispatched item that carries the agent tag the new tag
\* list differs from the original as a multiset of tags, after a handler
\* that returned and after one that raised, and once the item is reconciled
\* the pass has called the tag-replace operation for it exactly once.
C26_TagReplaceCalledOncePerItem ==
    /\ \A r \in 1..Len(calls) :
          (calls[r].op = "update_task_after_processing"
              /\ AGENT_TAG \in Range(calls[r].labels)) =>
              /\ ~SameMultiset(calls[r].labels,
                               Without(calls[r].labels, calls[r].tag)
                                  \o (IF calls[r].ok THEN <<DONE_TAG>> ELSE <<>>))
              /\ Cardinality(CallsOf("update_task_labels", calls[r].id)) <= 1
              /\ Reconciled(calls[r].id) =>
                    \E u \in CallsOf("update_task_labels", calls[r].id) : r < u

\* a pass has reconciled one item whose handler returned and one whose
\* handler raised
C26_Witness ==
    /\ PassReturned
    /\ \E r1, r2 \in 1..Len(calls) :
          /\ calls[r1].op = "update_task_after_processing" /\ calls[r1].ok
          /\ calls[r2].op = "update_task_after_processing" /\ ~calls[r2].ok
          /\ Reconciled(calls[r1].id) /\ Reconciled(calls[r2].id)

\* C27 as stated: a tag list passed to the tag-replace operation holds the
\* done marker at most once, and holds no tag twice when the item's original
\* list held none twice, also for an item that already carried the done
\* marker.
C27_NoDuplicateDoneMarker ==
    \A r, u \in 1..Len(calls) :
        (/\ calls[r].op = "update_task_after_processing"
         /\ calls[u].op = "update_task_labels"
         /\ calls[u].id = calls[r].id) =>
            /\ Count(calls[u].labels, DONE_TAG) <= 1
            /\ NoDuplicates(calls[r].labels) => NoDuplicates(calls[u].labels)

\* C28: the tag list written for an item starts with the item's original
\* tags other than the agent tag and the matched action tag, in their
\* original order (an action tag that was not selected among them), and has
\* nothing after them but, at most, the done marker.
C28_OtherTagsKeptInOrder ==
    \A r, u \in 1..Len(calls) :
        (/\ calls[r].op = "update_task_after_processing"
         /\ calls[u].op = "update_task_labels"
         /\ calls[u].id = calls[r].id) =>
            LET Other(x) == x # AGENT_TAG /\ x # calls[r].tag
                kept == SelectSeq(calls[r].labels, Other)
                new == calls[u].labels
            IN /\ Len(new) >= Len(kept)
               /\ SubSeq(new, 1, Len(kept)) = kept
               /\ SubSeq(new, Len(kept) + 1, Len(new)) \in {<<>>, <<DONE_TAG>>}

\* a tag list was written for an item that carried, beside the agent tag and
\* the matched action tag, a second recognised action tag and then the done
\* marker
C28_Witness ==
    \E r, u \in 1..Len(calls) :
        /\ calls[r].op = "update_task_after_processing"
        /\ calls[u].op = "update_task_labels"
        /\ calls[u].id = calls[r].id
        /\ \E i, j \in 1..Len(calls[r].labels) :
              /\ i < j
              /\ calls[r].labels[i] \in RegistryKeys(tool_registry) \ {calls[r].tag}
              /\ calls[r].labels[j] = DONE_TAG

\* C29 as stated: every step of Agent.process_tagged_tasks is the step
\* TaskProcessor.process_tagged_tasks takes from the same state with the same
\* outcomes of the handler and of the task-service calls: the same handler
\* execution, comment post and tag-replace call, with the same arguments.
C29_AgentStepIsTaskProcessorStep == [][NextTP]_vars

\* The while loop of main is running.
LoopRunning == pc \in {"idle", "loop", "reconcile", "labels", "recovering"}

\* C30: an exception that reaches main's loop does not end it: the loop has
\* ended only when the interrupt signal has come, it leaves a pass or the
\* scheduler for nothing but the delay unless interrupted, and after the
\* delay it is back where passes start.
C30_OnlyInterruptEndsLoop ==
    /\ [](~LoopRunning => main_loop.interrupted)
    /\ [][(LoopRunning /\ ~LoopRunning') =>
             (main_loop'.interrupted /\ ~main_loop.interrupted)]_vars
    /\ [][(pc = "recovering" /\ LoopRunning') => pc' = "idle"]_vars

\* a pass is under way that started after an exception reached the loop
C30_Witness ==
    /\ main_loop.escaped_at >= 0
    /\ passes > main_loop.escaped_at
    /\ pc = "reconcile"
    /\ ~main_loop.interrupted

=============================================================================
